---- MODULE Spec2Model ----
(***************************************************************************)
(* Model of the generation orchestrator of "Estudio de Estilos"            *)
(* (the App component: handleImageUpload, handleGenerate with its worker   *)
(* pool, handleRegenerateDecade, handleRemixDecade, handleReset,           *)
(* handleDownloadAlbum).                                                   *)
(*                                                                         *)
(* Scheduling: JavaScript runs one task at a time.  Every action below is  *)
(* one task: a handler from its entry to its first network await, or the   *)
(* settling of one network call together with every continuation that      *)
(* runs before control returns to the event loop.                          *)
(*                                                                         *)
(* State the handlers read is the committed React state; an updater        *)
(* function (prev => ...) is applied to the committed state.               *)
(*                                                                         *)
(* Which handler can be invoked when follows what App renders for each     *)
(* appState.  onRegenerate / onRemix are taken at the handler boundary:    *)
(* they may be invoked for any card shown, whatever its status, and guard  *)
(* themselves (PolaroidCard's choice of buttons by status is a subset).    *)
(*                                                                         *)
(* A network call, once issued, stays in flight until it settles: nothing  *)
(* cancels it, and it outlives handleReset and the next handleGenerate.    *)
(* To the application the generation and remix clients appear by their    *)
(* outcomes: an image URL or a thrown Error with its message.              *)
(*                                                                         *)
(* The client module (geminiService: callGeminiWithRetry,                  *)
(* processGeminiResponse, remixImage, generateDecadeImage) is followed on  *)
(* its own in ClientSpec: one call, through every transport attempt and    *)
(* backoff delay, with the transport free to resolve or reject each        *)
(* attempt.  Spec leaves the client at rest, ClientSpec the application.   *)
(* CodecSpec applies the client's format check to every short string.      *)
(* FairSpec and FairClientSpec add that whatever is awaited settles.       *)
(***************************************************************************)
EXTENDS Integers, Sequences, FiniteSets, Bags, TLC

\* ---------------------------------------------------------------- bounds
\* Labels per category (the source lists hold 6 each; 3 lets a pool of 2
\* workers go back to the queue).
NumStyles == 3
\* Times the user gets to invoke retryItem / remixItem in one behaviour that
\* stays with one category; a behaviour that may pick either category gets
\* one invocation fewer.
MaxUserCalls == 2
\* Longest data URL the format check is tried on, in characters.
MaxUrlLen == 5

\* ------------------------------------------------------------- constants
concurrencyLimit == 2

\* Mutant of PoolSize: one worker too many.
PoolSize_plusOne == concurrencyLimit + 1

\* Array(concurrencyLimit): the number of pool workers.
PoolSize == concurrencyLimit

\* gender: 'masculino' | 'feminino'
Genders == {"masculino", "feminino"}
NoGender == "null"

MALE_HAIRSTYLES == [i \in 1..NumStyles |-> i]
FEMALE_HAIRSTYLES == [i \in 1..NumStyles |-> NumStyles + i]

\* Mutant of Hairstyles: the category is not looked at.
Hairstyles_ignoresGender(gender) == MALE_HAIRSTYLES

\* gender === 'masculino' ? MALE_HAIRSTYLES : FEMALE_HAIRSTYLES
Hairstyles(gender) ==
    IF gender = "masculino" THEN MALE_HAIRSTYLES ELSE FEMALE_HAIRSTYLES

Range(s) == {s[i] : i \in DOMAIN s}

Labels == Range(MALE_HAIRSTYLES) \cup Range(FEMALE_HAIRSTYLES)

\* Image URLs by provenance: what generateDecadeImage resolves to and what
\* remixImage resolves to.  The orchestrator only tests a URL for presence.
NoImage == "undefined"
GeneratedImage == "data:generated"
RemixedImage == "data:remixed"
NoError == "none"

\* Messages of the errors generateDecadeImage / remixImage throw.
GenerateFailures == {"GenerationFailed"}
RemixFailures == {"RemixFailed"}

\* What a settled client call hands back: an image URL or a thrown Error.
GenerateOutcomes ==
    [ok : {TRUE}, url : {GeneratedImage}, msg : {NoError}]
        \cup [ok : {FALSE}, url : {NoImage}, msg : GenerateFailures]

RemixOutcomes ==
    [ok : {TRUE}, url : {RemixedImage}, msg : {NoError}]
        \cup [ok : {FALSE}, url : {NoImage}, msg : RemixFailures]

Prompts == {"", "mais curto"}

\* ----------------------------------------------------------------- items
\* A GeneratedImage.
Item(status, url, error) == [status |-> status, url |-> url, error |-> error]

\* generatedImages[h] === undefined
NoItem == Item("absent", NoImage, NoError)

\* { status: 'pending' }
PendingItem == Item("pending", NoImage, NoError)

\* Mutant of DoneItem: the result URL is not stored.
DoneItem_noUrl(url) == Item("done", NoImage, NoError)

\* { status: 'done', url: resultUrl }
DoneItem(url) == Item("done", url, NoError)

\* { status: 'error', error: errorMessage }
ErrorItem(msg) == Item("error", NoImage, msg)

\* { ...prev[hairstyle], status: 'pending' }
RemixPendingItem(prev) == [prev EXCEPT !.status = "pending"]

\* Mutant of RemixErrorItem: the catch of processHairstyle, which keeps no url.
RemixErrorItem_dropsImage(src, msg) == Item("error", NoImage, msg)

\* { status: 'error', url: sourceImage, error: errorMessage }
RemixErrorItem(src, msg) == Item("error", src, msg)

\* Mutant of SetItem: the spread of prev is missing.
SetItem_dropsPrev(prev, hairstyle, item) ==
    [h \in DOMAIN prev |-> IF h = hairstyle THEN item ELSE NoItem]

\* prev => ({ ...prev, [hairstyle]: item })
SetItem(prev, hairstyle, item) == [prev EXCEPT ![hairstyle] = item]

VARIABLES
    uploadedImage,    \* "null" or "photo"
    generatedImages,  \* label -> item (NoItem where the record has no key)
    isLoading,
    isDownloading,
    appState,         \* 'idle' | 'image-uploaded' | 'generating' | 'results-shown'
    selectedGender,
    hairstyleQueue,   \* the run's queue (local of handleGenerate)
    workers,          \* bag of the labels the pool workers await (a worker that
                      \* awaits nothing has returned)
    calls,            \* bag of retry / remix calls in flight
    attempts,         \* history: label -> pool hand-offs in the current run
    userCalls,        \* bounding: retry / remix invocations the user has left
    offered,          \* bounding: the categories the user picks from
    lastOp            \* history: the handler that returned early in the last task,
                      \* or that the last task reported the run complete, or
                      \* that it called createAlbumPage

appVars == <<uploadedImage, generatedImages, isLoading, isDownloading, appState,
             selectedGender, hairstyleQueue, workers, calls, attempts, userCalls,
             offered, lastOp>>

\* One call of the client module (generateDecadeImage or remixImage), followed
\* through its transport attempts.
VARIABLES
    clientPc,         \* where the call stands: "idle", "transport" (awaiting
                      \* generateContent), "backoff" (awaiting setTimeout),
                      \* "returned" or "threw"
    clientArgs,       \* the function called and its arguments
    tier,             \* "primary" or "fallback": which try block is running
    attempt,          \* the loop variable of callGeminiWithRetry
    groups,           \* history: one record per callGeminiWithRetry invocation
    clientResult      \* what the call resolved to or rejected with

clientVars == <<clientPc, clientArgs, tier, attempt, groups, clientResult>>

vars == <<appVars, clientVars>>

\* ---------------------------------------------------------------- client
\* callGeminiWithRetry's budget and first backoff delay (ms).
maxRetries == 3
initialDelay == 1000

\* Texts are sequences of parts; String.prototype.includes looks for a part.
Includes(message, part) == \E i \in DOMAIN message : message[i] = part

\* The parts the client looks for or puts into messages.
Code500 == "\"code\":500"
Internal == "INTERNAL"
NoImageText == "O modelo de IA respondeu com texto em vez de uma imagem"
NoTextReceived == "Nenhuma resposta de texto recebida."
RemixPrefix == "O modelo de IA falhou ao modificar a imagem. Detalhes:"
GeneratePrefix == "O modelo de IA nao conseguiu gerar uma imagem. Detalhes:"
FallbackPrefix ==
    "O modelo de IA falhou com os prompts original e de recurso. Ultimo erro:"
InvalidFormatText == "Formato de URL de dados de imagem invalido."
ObjectString == "[object Object]"

\* A thrown value: an Error with its message, or another value with the text
\* JSON.stringify gives for it.
Error(message) == [isError |-> TRUE, message |-> message, json |-> <<"{}">>]
NonError(json) == [isError |-> FALSE, message |-> <<>>, json |-> json]
NoThrown == NonError(<<>>)

\* What ai.models.generateContent may reject with.
TransportMessages == {<<Code500>>, <<Internal>>, <<"fetch failed">>}
TransportErrors ==
    {Error(m) : m \in TransportMessages} \cup {NonError(m) : m \in TransportMessages}

\* error instanceof Error ? error.message : JSON.stringify(error)
MessageOrJson(error) == IF error.isError THEN error.message ELSE error.json

\* error instanceof Error ? error.message : String(error)
MessageOrString(error) ==
    IF error.isError THEN error.message ELSE <<ObjectString>>

\* Data URLs are sequences of characters, the literal pieces of the pattern
\* `data:`, `image/` and `;base64,` each taken as one: besides them a word
\* character (\w), a character that is neither a word character nor a line
\* break, and a line break.
DataPrefix == "data:"
ImageSlash == "image/"
Base64Sep == ";base64,"
WordChar == "w"
OtherChar == "+"
LineBreak == "\n"

\* Response parts: one with inlineData, one with text.
ImagePart(mimeType, data) ==
    [inlineData |-> <<[mimeType |-> mimeType, data |-> data]>>, text |-> ""]
TextPart(text) == [inlineData |-> <<>>, text |-> text]

\* What ai.models.generateContent may resolve to: the parts of the first
\* candidate's content.
Responses ==
    LET image == ImagePart(<<ImageSlash, WordChar>>, <<WordChar, WordChar>>)
        text == TextPart("Nao posso ajudar.")
    IN  {<<>>, <<text>>, <<image>>, <<text, image>>}

\* response.text: the text parts joined.
ResponseText(response) ==
    IF \E i \in DOMAIN response : response[i].text # ""
        THEN response[CHOOSE i \in DOMAIN response : response[i].text # ""].text
        ELSE ""

\* `data:${mimeType};base64,${data}`
DataUrl(mimeType, data) == <<DataPrefix>> \o mimeType \o <<Base64Sep>> \o data

\* imageDataUrl.match(/^data:(image\/\w+);base64,(.*)$/): no match, or the
\* two groups.  After `data:` and `image/` comes the run of word characters,
\* which the separator must end; `.*` then runs to the end of the input and
\* takes no line break.
MatchGroups(imageDataUrl) ==
    LET n == Len(imageDataUrl)
        seps == {k \in 4..n :
                    /\ imageDataUrl[k] = Base64Sep
                    /\ \A i \in 3..(k - 1) : imageDataUrl[i] = WordChar}
    IN  IF /\ n >= 4
           /\ imageDataUrl[1] = DataPrefix
           /\ imageDataUrl[2] = ImageSlash
           /\ seps # {}
           /\ \A k \in seps : \A i \in (k + 1)..n : imageDataUrl[i] # LineBreak
           THEN LET k == CHOOSE k \in seps : TRUE
                IN  <<[mimeType |-> SubSeq(imageDataUrl, 2, k - 1),
                       data |-> SubSeq(imageDataUrl, k + 1, n)]>>
           ELSE <<>>

\* if (!match)
Match(imageDataUrl) == MatchGroups(imageDataUrl) # <<>>

\* const imagePart = { inlineData: { mimeType, data: base64Data } }
RequestPart(imageDataUrl) == MatchGroups(imageDataUrl)[1]

\* What a promise settles to: the transport's (a response or a thrown value)
\* and the client's (an image URL or a thrown value).
Returned(response) == [ok |-> TRUE, response |-> response, error |-> NoThrown]
Threw(error) == [ok |-> FALSE, response |-> <<>>, error |-> error]
TransportOutcomes ==
    {Returned(r) : r \in Responses} \cup {Threw(e) : e \in TransportErrors}

Resolved(url) == [ok |-> TRUE, url |-> url, error |-> NoThrown]
Rejected(error) == [ok |-> FALSE, url |-> <<>>, error |-> error]
NoResult == Rejected(NoThrown)

\* Mutant of processGeminiResponse: only the first part is looked at
\* (parts[0] for parts.find).
processGeminiResponse_firstPartOnly(response) ==
    IF Len(response) > 0 /\ response[1].inlineData # <<>>
        THEN Resolved(DataUrl(response[1].inlineData[1].mimeType,
                              response[1].inlineData[1].data))
        ELSE Rejected(Error(<<NoImageText, NoTextReceived>>))

\* processGeminiResponse: the URL of the first part with inlineData, or the
\* "text instead of an image" Error.
processGeminiResponse(response) ==
    LET images == {i \in DOMAIN response : response[i].inlineData # <<>>}
    IN  IF images # {}
            THEN LET first == CHOOSE i \in images : \A j \in images : i <= j
                     inlineData == response[first].inlineData[1]
                 IN  Resolved(DataUrl(inlineData.mimeType, inlineData.data))
            ELSE Rejected(Error(<<NoImageText,
                    IF ResponseText(response) # "" THEN ResponseText(response)
                                                   ELSE NoTextReceived>>))

\* Mutant of isInternalError: every failure is taken for a server fault.
isInternalError_anyFailure(error) == TRUE

\* isInternalError of callGeminiWithRetry's catch.
isInternalError(error) ==
    \/ Includes(MessageOrJson(error), Code500)
    \/ Includes(MessageOrJson(error), Internal)

\* Mutant of Delay: the exponent is the attempt number.
Delay_exponentOffByOne(k) == initialDelay * 2 ^ k

\* initialDelay * Math.pow(2, attempt - 1)
Delay(k) == initialDelay * 2 ^ (k - 1)

\* Mutant of Retries: the budget test is `attempt <= maxRetries`.
Retries_oneTooMany(error, k) == isInternalError(error) /\ k <= maxRetries

\* isInternalError && attempt < maxRetries
Retries(error, k) == isInternalError(error) /\ k < maxRetries

\* Mutant of isNoImageError: every failure of the primary attempt goes to the
\* fallback.
isNoImageError_anyFailure(error) == TRUE

\* isNoImageError of generateDecadeImage's catch.
isNoImageError(error) == Includes(MessageOrJson(error), NoImageText)

\* Mutant of MissingFallbackInputs: the test is left out.
MissingFallbackInputs_neverMissing(hairstyle, gender) == FALSE

\* !hairstyle || !gender
MissingFallbackInputs(hairstyle, gender) == hairstyle = "" \/ gender = ""

\* Mutant of RemixFailed: the catch block rethrows what it caught.
RemixFailed_rethrows(error) == error

\* The Errors the catch blocks throw.
RemixFailed(error) == Error(<<RemixPrefix>> \o MessageOrJson(error))
GenerationFailed(error) == Error(<<GeneratePrefix>> \o MessageOrJson(error))
FallbackFailed(error) == Error(<<FallbackPrefix>> \o MessageOrString(error))
InvalidImageFormat == Error(<<InvalidFormatText>>)

\* A callGeminiWithRetry invocation: the try block it serves, what each
\* transport attempt settled to, the delays taken, and what it settled to.
Group(t, imagePart) ==
    [tier |-> t, imagePart |-> imagePart,
     tries |-> <<>>, delays |-> <<>>, settled |-> <<>>]

NoArgs == [fn |-> "none", imageDataUrl |-> <<>>, hairstyle |-> "", gender |-> ""]

ClientIdle ==
    /\ clientPc = "idle"
    /\ clientArgs = NoArgs
    /\ tier = "none"
    /\ attempt = 0
    /\ groups = <<>>
    /\ clientResult = NoResult

Idle == 0
IdlePool == EmptyBag

Op(name, label) == [op |-> name, label |-> label]
NoOp == Op("none", 0)
RunSettled == Op("runSettled", 0)

Init ==
    /\ uploadedImage = "null"
    /\ generatedImages = [h \in Labels |-> NoItem]
    /\ isLoading = FALSE
    /\ isDownloading = FALSE
    /\ appState = "idle"
    /\ selectedGender = NoGender
    /\ hairstyleQueue = <<>>
    /\ workers = IdlePool
    /\ calls = EmptyBag
    /\ attempts = [h \in Labels |-> 0]
    /\ \/ offered = {"masculino"} /\ userCalls = MaxUserCalls
       \/ offered = Genders /\ userCalls = MaxUserCalls - 1
    /\ lastOp = NoOp
    /\ ClientIdle

\* reader.onloadend of handleImageUpload; the file input is rendered only
\* while appState === 'idle'.
handleImageUpload ==
    /\ appState = "idle"
    /\ uploadedImage' = "photo"
    /\ appState' = "image-uploaded"
    /\ generatedImages' = [h \in Labels |-> NoItem]
    /\ selectedGender' = NoGender
    /\ lastOp' = NoOp
    /\ UNCHANGED <<offered, isDownloading, clientVars>>
    /\ UNCHANGED <<isLoading, hairstyleQueue, workers, calls, attempts, userCalls>>

\* Mutant of Shift: reads the head without removing it (q[0] for q.shift()).
Shift_keepsHead(q) == [label |-> Head(q), rest |-> q]

\* hairstyleQueue.shift(): the label taken and what stays queued.
Shift(q) == [label |-> Head(q), rest |-> Tail(q)]

\* Mutant of WorkerLoop: the loop test is `length > 1`.
WorkerLoop_stopsEarly(q) ==
    IF Len(q) > 1
        THEN [label |-> Shift(q).label, queue |-> Shift(q).rest]
        ELSE [label |-> Idle, queue |-> q]

\* One pass of a worker's `while (hairstyleQueue.length > 0)` test: the label
\* it goes on to await (Idle when the loop exits) and the queue it leaves.
WorkerLoop(q) ==
    IF Len(q) > 0
        THEN [label |-> Shift(q).label, queue |-> Shift(q).rest]
        ELSE [label |-> Idle, queue |-> q]

\* The pool with one more worker awaiting `label` (none when the loop exited).
Await(ws, label) == IF label = Idle THEN ws ELSE ws (+) SetToBag({label})

\* The synchronous start of the async workers w..PoolSize, in map() order:
\* each runs to its first await.  Yields the labels awaited and the queue.
RECURSIVE StartWorkers(_, _, _)
StartWorkers(w, q, ws) ==
    IF w > PoolSize THEN [workers |-> ws, queue |-> q]
    ELSE StartWorkers(w + 1, WorkerLoop(q).queue, Await(ws, WorkerLoop(q).label))

\* History: the pool hand-offs of the bag `taken` added to the counts.
Handed(att, taken) == [h \in Labels |-> att[h] + CopiesIn(h, taken)]

\* History: every call in flight was issued before the run that begins now.
MarkStale(bag) ==
    LET olds == BagToSet(bag)
        aged(c) == [c EXCEPT !.stale = TRUE]
    IN  [d \in {aged(c) : c \in olds} |->
            (IF d \in olds THEN bag[d] ELSE 0)
          + (IF [d EXCEPT !.stale = FALSE] \in olds
                THEN bag[[d EXCEPT !.stale = FALSE]] ELSE 0)]

\* handleGenerate up to `await Promise.all(workers)`; its buttons are rendered
\* only while appState === 'image-uploaded'.
handleGenerate(gender) ==
    /\ appState = "image-uploaded"
    /\ uploadedImage # "null"
    /\ LET hairstyles == Hairstyles(gender)
           started == StartWorkers(1, hairstyles, IdlePool)
       IN  /\ selectedGender' = gender
           /\ isLoading' = TRUE
           /\ appState' = "generating"
           /\ generatedImages' =
                [h \in Labels |-> IF h \in Range(hairstyles) THEN PendingItem ELSE NoItem]
           /\ hairstyleQueue' = started.queue
           /\ workers' = started.workers
           /\ attempts' = Handed([h \in Labels |-> 0], started.workers)
    /\ calls' = MarkStale(calls)
    /\ lastOp' = NoOp
    /\ UNCHANGED <<offered, isDownloading, clientVars>>
    /\ UNCHANGED <<uploadedImage, userCalls>>

\* Mutant of GeneratedItem: no catch, a failure stores nothing and the item
\* stays as the run created it.
GeneratedItem_noCatch(o) ==
    IF o.ok THEN DoneItem(o.url) ELSE PendingItem

\* The item processHairstyle / handleRegenerateDecade stores when
\* generateDecadeImage settles.
GeneratedItem(o) ==
    IF o.ok THEN DoneItem(o.url) ELSE ErrorItem(o.msg)

\* Mutant of PoolDone: Promise.race for Promise.all.
PoolDone_anyWorker(ws) == BagCardinality(ws) < PoolSize

\* await Promise.all(workers): every worker has returned.
PoolDone(ws) == ws = IdlePool

\* The generateDecadeImage call a pool worker made for h settles: processHairstyle
\* stores the item, the worker loops, and once every worker has returned
\* Promise.all resolves and handleGenerate reports the run complete.
PoolSettle(h, o) ==
    /\ BagIn(h, workers)
    /\ generatedImages' = SetItem(generatedImages, h, GeneratedItem(o))
    /\ LET nxt == WorkerLoop(hairstyleQueue)
       IN  /\ workers' = Await(workers (-) SetToBag({h}), nxt.label)
           /\ hairstyleQueue' = nxt.queue
           /\ attempts' = Handed(attempts, Await(EmptyBag, nxt.label))
    /\ IF PoolDone(workers')
          THEN /\ isLoading' = FALSE
               /\ appState' = "results-shown"
               /\ lastOp' = RunSettled
          ELSE /\ UNCHANGED <<isLoading, appState>>
               /\ lastOp' = NoOp
    /\ UNCHANGED <<offered, isDownloading, clientVars>>
    /\ UNCHANGED <<uploadedImage, selectedGender, calls, userCalls>>

\* The cards (and so onRegenerate / onRemix) are rendered for the labels of
\* the selected category while appState is 'generating' or 'results-shown'.
CardShown(h) ==
    /\ appState \in {"generating", "results-shown"}
    /\ selectedGender # NoGender
    /\ h \in Range(Hairstyles(selectedGender))

\* Mutant of RegenerateReturnsEarly: the Pending guard is missing.
RegenerateReturnsEarly_noPendingGuard(h) ==
    \/ uploadedImage = "null"
    \/ selectedGender = NoGender

\* The early returns of handleRegenerateDecade.
RegenerateReturnsEarly(h) ==
    \/ uploadedImage = "null"
    \/ selectedGender = NoGender
    \/ generatedImages[h].status = "pending"

Call(kind, h, src, stale) == [kind |-> kind, label |-> h, src |-> src, stale |-> stale]

\* Mutant of handleRegenerateDecade: the retry goes through the run's pool,
\* queueing the label when every worker is busy.
handleRegenerateDecade_viaPool(h) ==
    /\ CardShown(h)
    /\ UNCHANGED <<offered, isDownloading, clientVars>>
    /\ userCalls > 0
    /\ userCalls' = userCalls - 1
    /\ IF RegenerateReturnsEarly(h)
          THEN /\ lastOp' = Op("handleRegenerateDecade", h)
               /\ UNCHANGED <<generatedImages, hairstyleQueue, workers>>
          ELSE /\ lastOp' = NoOp
               /\ generatedImages' = SetItem(generatedImages, h, PendingItem)
               /\ IF BagCardinality(workers) < PoolSize
                     THEN workers' = workers (+) SetToBag({h})
                          /\ UNCHANGED hairstyleQueue
                     ELSE hairstyleQueue' = Append(hairstyleQueue, h)
                          /\ UNCHANGED workers
    /\ UNCHANGED <<uploadedImage, isLoading, appState, selectedGender,
                   calls, attempts>>

\* handleRegenerateDecade up to `await generateDecadeImage(...)`.
handleRegenerateDecade(h) ==
    /\ CardShown(h)
    /\ UNCHANGED <<offered, isDownloading, clientVars>>
    /\ userCalls > 0
    /\ userCalls' = userCalls - 1
    /\ IF RegenerateReturnsEarly(h)
          THEN /\ lastOp' = Op("handleRegenerateDecade", h)
               /\ UNCHANGED <<generatedImages, calls>>
          ELSE /\ lastOp' = NoOp
               /\ generatedImages' = SetItem(generatedImages, h, PendingItem)
               /\ calls' = calls (+) SetToBag({Call("retry", h, NoImage, FALSE)})
    /\ UNCHANGED <<uploadedImage, isLoading, appState, selectedGender,
                   hairstyleQueue, workers, attempts>>

\* The generateDecadeImage call of a handleRegenerateDecade settles.
RetrySettle(c, o) ==
    /\ BagIn(c, calls)
    /\ c.kind = "retry"
    /\ calls' = calls (-) SetToBag({c})
    /\ generatedImages' = SetItem(generatedImages, c.label, GeneratedItem(o))
    /\ lastOp' = NoOp
    /\ UNCHANGED <<offered, isDownloading, clientVars>>
    /\ UNCHANGED <<uploadedImage, isLoading, appState, selectedGender,
                   hairstyleQueue, workers, attempts, userCalls>>

\* Mutant of RemixReturnsEarly: the Pending guard is missing.
RemixReturnsEarly_noPendingGuard(h, prompt) ==
    \/ generatedImages[h].url = NoImage
    \/ prompt = ""

\* The early returns of handleRemixDecade.
RemixReturnsEarly(h, prompt) ==
    \/ generatedImages[h].url = NoImage
    \/ prompt = ""
    \/ generatedImages[h].status = "pending"

\* handleRemixDecade up to `await remixImage(sourceImage, prompt)`.
handleRemixDecade(h, prompt) ==
    /\ CardShown(h)
    /\ UNCHANGED <<offered, isDownloading, clientVars>>
    /\ userCalls > 0
    /\ userCalls' = userCalls - 1
    /\ IF RemixReturnsEarly(h, prompt)
          THEN /\ lastOp' = Op(IF prompt = "" THEN "handleRemixDecade, no prompt"
                                               ELSE "handleRemixDecade", h)
               /\ UNCHANGED <<generatedImages, calls>>
          ELSE /\ lastOp' = NoOp
               /\ generatedImages' =
                    SetItem(generatedImages, h, RemixPendingItem(generatedImages[h]))
               /\ calls' = calls (+) SetToBag(
                    {Call("remix", h, generatedImages[h].url, FALSE)})
    /\ UNCHANGED <<uploadedImage, isLoading, appState, selectedGender,
                   hairstyleQueue, workers, attempts>>

\* Mutant of RemixedItem: no catch, a failure stores nothing and the item
\* stays as handleRemixDecade left it.
RemixedItem_noCatch(c, o) ==
    IF o.ok THEN DoneItem(o.url) ELSE Item("pending", c.src, NoError)

\* The item handleRemixDecade stores when remixImage settles.
RemixedItem(c, o) ==
    IF o.ok THEN DoneItem(o.url) ELSE RemixErrorItem(c.src, o.msg)

\* The remixImage call of a handleRemixDecade settles.
RemixSettle(c, o) ==
    /\ BagIn(c, calls)
    /\ c.kind = "remix"
    /\ calls' = calls (-) SetToBag({c})
    /\ generatedImages' = SetItem(generatedImages, c.label, RemixedItem(c, o))
    /\ lastOp' = NoOp
    /\ UNCHANGED <<offered, isDownloading, clientVars>>
    /\ UNCHANGED <<uploadedImage, isLoading, appState, selectedGender,
                   hairstyleQueue, workers, attempts, userCalls>>

\* handleReset; its buttons are rendered while appState is 'image-uploaded'
\* or 'results-shown'.
handleReset ==
    /\ appState \in {"image-uploaded", "results-shown"}
    /\ uploadedImage' = "null"
    /\ generatedImages' = [h \in Labels |-> NoItem]
    /\ selectedGender' = NoGender
    /\ appState' = "idle"
    /\ calls' = MarkStale(calls)
    /\ lastOp' = NoOp
    /\ UNCHANGED <<offered, isDownloading, clientVars>>
    /\ UNCHANGED <<isLoading, hairstyleQueue, workers, attempts, userCalls>>

\* imageData of handleDownloadAlbum: the keys of every entry of
\* generatedImages that is done and has a url.
AlbumImages(images) ==
    {h \in DOMAIN images : images[h].status = "done" /\ images[h].url # NoImage}

\* Object.keys(imageData).length < hairstyles.length
AlbumRefused(images, gender) ==
    Cardinality(AlbumImages(images)) < Len(Hairstyles(gender))

AlbumRefusedOp == Op("handleDownloadAlbum", 0)
AlbumComposedOp == Op("createAlbumPage", 0)

\* handleDownloadAlbum up to `await createAlbumPage(imageData)`, or through
\* its early return and `finally`; its button is rendered while appState is
\* 'results-shown' and disabled while isDownloading.
handleDownloadAlbum ==
    /\ appState = "results-shown"
    /\ ~isDownloading
    /\ IF AlbumRefused(generatedImages, selectedGender)
          THEN /\ lastOp' = AlbumRefusedOp
               /\ UNCHANGED isDownloading
          ELSE /\ lastOp' = AlbumComposedOp
               /\ isDownloading' = TRUE
    /\ UNCHANGED <<offered, clientVars>>
    /\ UNCHANGED <<uploadedImage, generatedImages, isLoading, appState,
                   selectedGender, hairstyleQueue, workers, calls, attempts,
                   userCalls>>

\* createAlbumPage settles: the link is clicked or the failure is alerted,
\* and `finally` clears the flag.
AlbumSettle ==
    /\ isDownloading
    /\ isDownloading' = FALSE
    /\ lastOp' = NoOp
    /\ UNCHANGED <<offered, clientVars>>
    /\ UNCHANGED <<uploadedImage, generatedImages, isLoading, appState,
                   selectedGender, hairstyleQueue, workers, calls, attempts,
                   userCalls>>

\* What the try / catch around a client call in processHairstyle,
\* handleRegenerateDecade and handleRemixDecade makes of what the call
\* settled to: resultUrl, or errorMessage (err instanceof Error ? err.message
\* : "An unknown error occurred.").
UnknownError == "An unknown error occurred."
Outcome(result) ==
    [ok |-> result.ok,
     url |-> IF result.ok THEN result.url ELSE NoImage,
     msg |-> IF result.ok THEN NoError
             ELSE IF result.error.isError THEN result.error.message
             ELSE <<UnknownError>>]

\* ---------------------------------------------------------- client steps
GenerateFn == "generateDecadeImage"
RemixFn == "remixImage"

\* The arguments the calls are made with.
ImageDataUrls ==
    { DataUrl(<<ImageSlash, WordChar>>, <<WordChar, OtherChar>>),
      DataUrl(<<ImageSlash, WordChar, OtherChar, WordChar>>, <<WordChar>>),
      DataUrl(<<ImageSlash, WordChar>>, <<WordChar, LineBreak>>),
      DataUrl(<<WordChar>>, <<WordChar>>),
      <<WordChar, ImageSlash, WordChar, Base64Sep, WordChar>>,
      <<DataPrefix, ImageSlash, WordChar>>,
      <<>> }
HairstyleArgs == {"", "Slick Back"}
GenderArgs == {"", "masculino"}

\* Mutant of Catch: remixImage's catch goes on to a fallback attempt as
\* generateDecadeImage's does.
Catch_remixFallsBack(args, t, error) ==
    IF t = "fallback"
        THEN [fallback |-> FALSE, throws |-> FallbackFailed(error)]
    ELSE IF ~isNoImageError(error)
        THEN [fallback |-> FALSE,
              throws |-> IF args.fn = RemixFn THEN RemixFailed(error)
                                              ELSE GenerationFailed(error)]
    ELSE IF args.fn # RemixFn /\ MissingFallbackInputs(args.hairstyle, args.gender)
        THEN [fallback |-> FALSE, throws |-> error]
    ELSE [fallback |-> TRUE, throws |-> NoThrown]

\* After a try block failed with `error`: does the catch block go on to the
\* fallback attempt, and if not, what does it throw.  remixImage has one
\* catch; generateDecadeImage one for each of its two try blocks.
Catch(args, t, error) ==
    IF args.fn = RemixFn
        THEN [fallback |-> FALSE, throws |-> RemixFailed(error)]
    ELSE IF t = "fallback"
        THEN [fallback |-> FALSE, throws |-> FallbackFailed(error)]
    ELSE IF ~isNoImageError(error)
        THEN [fallback |-> FALSE, throws |-> GenerationFailed(error)]
    ELSE IF MissingFallbackInputs(args.hairstyle, args.gender)
        THEN [fallback |-> FALSE, throws |-> error]
    ELSE [fallback |-> TRUE, throws |-> NoThrown]

\* What `const response = await callGeminiWithRetry(...); return
\* processGeminiResponse(response)` comes to, given what the await settled to.
TryBlock(r) ==
    IF r.ok THEN processGeminiResponse(r.response) ELSE Rejected(r.error)

\* The running callGeminiWithRetry settles to r, its record being g: the
\* caller's try block ends, and on a failure its catch block runs.
GroupSettles(g, r) ==
    LET n == Len(groups)
        closed == [groups EXCEPT ![n] = [g EXCEPT !.settled = <<r>>]]
        tried == TryBlock(r)
        caught == Catch(clientArgs, tier, tried.error)
    IN  IF tried.ok
            THEN /\ clientPc' = "returned"
                 /\ clientResult' = tried
                 /\ groups' = closed
                 /\ UNCHANGED <<tier, attempt>>
        ELSE IF caught.fallback
            THEN /\ clientPc' = "transport"
                 /\ tier' = "fallback"
                 /\ attempt' = 1
                 /\ groups' = Append(closed, Group("fallback", g.imagePart))
                 /\ UNCHANGED clientResult
        ELSE /\ clientPc' = "threw"
             /\ clientResult' = Rejected(caught.throws)
             /\ groups' = closed
             /\ UNCHANGED <<tier, attempt>>

\* Mutant of ClientCall: the format check is made inside the try block, so
\* the catch block wraps its Error.
ClientCall_checksInsideTry(fn, imageDataUrl, hairstyle, gender) ==
    /\ clientPc = "idle"
    /\ clientArgs' = [fn |-> fn, imageDataUrl |-> imageDataUrl,
                      hairstyle |-> hairstyle, gender |-> gender]
    /\ IF ~Match(imageDataUrl)
          THEN /\ clientPc' = "threw"
               /\ clientResult' =
                    Rejected(Catch(clientArgs', "primary", InvalidImageFormat).throws)
               /\ UNCHANGED <<tier, attempt, groups>>
          ELSE /\ clientPc' = "transport"
               /\ tier' = "primary"
               /\ attempt' = 1
               /\ groups' = <<Group("primary", RequestPart(imageDataUrl))>>
               /\ UNCHANGED clientResult
    /\ UNCHANGED appVars

\* generateDecadeImage / remixImage from entry to the first await: the format
\* check, then the first attempt of callGeminiWithRetry.
ClientCall(fn, imageDataUrl, hairstyle, gender) ==
    /\ clientPc = "idle"
    /\ clientArgs' = [fn |-> fn, imageDataUrl |-> imageDataUrl,
                      hairstyle |-> hairstyle, gender |-> gender]
    /\ IF ~Match(imageDataUrl)
          THEN /\ clientPc' = "threw"
               /\ clientResult' = Rejected(InvalidImageFormat)
               /\ UNCHANGED <<tier, attempt, groups>>
          ELSE /\ clientPc' = "transport"
               /\ tier' = "primary"
               /\ attempt' = 1
               /\ groups' = <<Group("primary", RequestPart(imageDataUrl))>>
               /\ UNCHANGED clientResult
    /\ UNCHANGED appVars

\* The generateContent call of the current attempt settles to o.  A failure
\* that is retried starts the backoff timer; anything else ends
\* callGeminiWithRetry (`return await ...` or `throw error`).
TransportSettle(o) ==
    /\ clientPc = "transport"
    /\ LET n == Len(groups)
           g == [groups[n] EXCEPT !.tries = Append(@, o)]
       IN  IF ~o.ok /\ Retries(o.error, attempt)
              THEN /\ clientPc' = "backoff"
                   /\ groups' = [groups EXCEPT ![n] =
                                   [g EXCEPT !.delays = Append(@, Delay(attempt))]]
                   /\ UNCHANGED <<tier, attempt, clientResult>>
              ELSE GroupSettles(g, o)
    /\ UNCHANGED clientArgs
    /\ UNCHANGED appVars

AllAttemptsFailed == "A chamada a API Gemini falhou apos todas as tentativas."

\* The backoff timer fires: `continue`, attempt++, and the loop test; past
\* the budget the loop ends and the function throws its closing Error.
BackoffElapses ==
    /\ clientPc = "backoff"
    /\ IF attempt + 1 <= maxRetries
          THEN /\ attempt' = attempt + 1
               /\ clientPc' = "transport"
               /\ UNCHANGED <<tier, groups, clientResult>>
          ELSE GroupSettles(groups[Len(groups)], Threw(Error(<<AllAttemptsFailed>>)))
    /\ UNCHANGED clientArgs
    /\ UNCHANGED appVars

ClientNext ==
    \/ \E imageDataUrl \in ImageDataUrls, hairstyle \in HairstyleArgs,
          gender \in GenderArgs :
            ClientCall(GenerateFn, imageDataUrl, hairstyle, gender)
    \/ \E imageDataUrl \in ImageDataUrls :
            ClientCall(RemixFn, imageDataUrl, "", "")
    \/ \E o \in TransportOutcomes : TransportSettle(o)
    \/ BackoffElapses

Next ==
    \/ handleImageUpload
    \/ \E gender \in offered : handleGenerate(gender)
    \/ \E h \in Labels, o \in GenerateOutcomes : PoolSettle(h, o)
    \/ \E h \in Labels : handleRegenerateDecade(h)
    \/ \E c \in BagToSet(calls), o \in GenerateOutcomes : RetrySettle(c, o)
    \/ \E h \in Labels, prompt \in Prompts : handleRemixDecade(h, prompt)
    \/ \E c \in BagToSet(calls), o \in RemixOutcomes : RemixSettle(c, o)
    \/ handleReset
    \/ handleDownloadAlbum
    \/ AlbumSettle

Spec == Init /\ [][Next]_vars

\* One client call on its own, the application at rest.
ClientSpec == Init /\ [][ClientNext]_vars

\* ------------------------------------------------------------ the codec
\* Every string of up to MaxUrlLen characters.
Alphabet == {DataPrefix, ImageSlash, Base64Sep, WordChar, OtherChar, LineBreak}
Strings == UNION {[1..n -> Alphabet] : n \in 0..MaxUrlLen}

\* The transport answers with the very image it was sent: one part whose
\* inlineData is the request's.
EchoSettle ==
    /\ clientPc = "transport"
    /\ LET sent == groups[Len(groups)].imagePart
       IN  TransportSettle(Returned(<<ImagePart(sent.mimeType, sent.data)>>))

CodecNext ==
    \/ \E imageDataUrl \in Strings :
            ClientCall(GenerateFn, imageDataUrl, "Slick Back", "masculino")
    \/ EchoSettle

\* The format check of a call on any string, and the URL composed from the
\* image that check took apart.
CodecSpec == Init /\ [][CodecNext]_vars

\* Every network call that is in flight settles in the end: the pool's, the
\* retries' and the remixes'.
CallSettles ==
    \/ \E h \in Labels, o \in GenerateOutcomes : PoolSettle(h, o)
    \/ \E c \in BagToSet(calls), o \in GenerateOutcomes : RetrySettle(c, o)
    \/ \E c \in BagToSet(calls), o \in RemixOutcomes : RemixSettle(c, o)

\* The fair behaviours are followed where the user may pick either category.
FairInit == Init /\ offered = Genders

FairSpec == FairInit /\ [][Next]_vars /\ WF_vars(CallSettles)

\* Every transport attempt settles and every backoff timer fires.
FairClientSpec ==
    /\ ClientSpec
    /\ WF_vars(\E o \in TransportOutcomes : TransportSettle(o))
    /\ WF_vars(BackoffElapses)

\* ---------------------------------------------------------------- claims
RunLabels ==
    IF selectedGender = NoGender THEN {} ELSE Range(Hairstyles(selectedGender))

RunActive == appState \in {"generating", "results-shown"}

Settled(h) == generatedImages[h].status \in {"done", "error"}

\* The retry / remix calls in flight for label h.
UserCallsFor(h) == {c \in BagToSet(calls) : c.label = h}

\* Generation and remix calls in flight for label h, pool and user together.
InFlight(h) ==
    CopiesIn(h, workers)
      + BagCardinality([c \in UserCallsFor(h) |-> calls[c]])

RetryCall(h) == Call("retry", h, NoImage, FALSE)

\* Steps of the two user handlers (only they use up an invocation) and steps
\* in which a retry / remix call settles (only they take a call out of the bag).
UserInvokes == userCalls' # userCalls
UserCallSettles == BagCardinality(calls') < BagCardinality(calls)

\* C1: in a run, every label of the run's label set is dequeued and handed
\* to the generation client by the pool exactly once: never twice, none still
\* queued once the run is complete, and while it runs exactly the labels no
\* longer queued have been handed over.
C1_EachLabelHandedOnce ==
    /\ \A h \in Labels : attempts[h] <= 1
    /\ RunActive =>
         \A h \in RunLabels :
            attempts[h] = (IF h \in Range(hairstyleQueue) THEN 0 ELSE 1)
    /\ appState = "results-shown" => \A h \in RunLabels : attempts[h] = 1

C1_Witness ==
    /\ lastOp = RunSettled
    /\ \A h \in RunLabels : attempts[h] = 1 /\ Settled(h)

\* C2 as claimed: when the run is reported complete, every label of the run
\* is Done or Error.
C2_AllSettledAtRunEnd ==
    lastOp = RunSettled => \A h \in RunLabels : Settled(h)

\* C2 as amended: when the run is reported complete, every label of the run
\* is Done or Error, except a label for which a retry or remix issued during
\* the run is still in flight: that label is Pending.
C2_AllSettledOrRetriedAtRunEnd ==
    lastOp = RunSettled =>
        \A h \in RunLabels :
            \/ Settled(h)
            \/ /\ generatedImages[h].status = "pending"
               /\ \E c \in UserCallsFor(h) : ~c.stale

C2_Witness ==
    /\ lastOp = RunSettled
    /\ \E h \in RunLabels : generatedImages[h].status = "pending"
    /\ \E h \in RunLabels : Settled(h)

\* C3: at every moment at most concurrencyLimit generation calls issued by
\* the pool are in flight.
C3_PoolWithinLimit == BagCardinality(workers) <= concurrencyLimit

C3_Witness ==
    /\ BagCardinality(workers) = concurrencyLimit
    /\ Len(hairstyleQueue) > 0

\* C4 as claimed: at most one generation or remix call is in flight for any
\* label, pool, retry and remix counted together.
C4_OneCallPerLabel == \A h \in Labels : InFlight(h) <= 1

\* C5 as claimed: once a new run has started, a call issued before it began
\* leaves no result or error in the mapping when it settles.
C5_NoStaleResult ==
    [][UserCallSettles => \A c \in BagToSet(calls) :
         (c.stale /\ RunActive
            /\ \/ \E o \in GenerateOutcomes : RetrySettle(c, o)
               \/ \E o \in RemixOutcomes : RemixSettle(c, o))
         => generatedImages' = generatedImages]_vars

\* C6: retryItem invoked on a Pending item changes no item and issues no
\* call.
C6_RetryOfPendingIsNoOp ==
    [][UserInvokes => \A h \in Labels :
         (handleRegenerateDecade(h) /\ generatedImages[h].status = "pending")
         => UNCHANGED <<generatedImages, calls, workers, hairstyleQueue,
                        attempts, isLoading, appState>>]_vars

C6_Witness ==
    \E h \in Labels :
        /\ lastOp = Op("handleRegenerateDecade", h)
        /\ generatedImages[h].status = "pending"
        /\ uploadedImage # "null"
        /\ selectedGender # NoGender

\* C7: retryItem invoked on a Done or Error item sets that item to Pending
\* and issues one generation call for it; when the call settles the item
\* becomes Done with the result or Error with the failure message; neither
\* step changes another label's item.
C7_RetryResetsThenResolves ==
    [][/\ UserInvokes => \A h \in Labels :
            (handleRegenerateDecade(h) /\ Settled(h))
            => /\ generatedImages'[h] = Item("pending", NoImage, NoError)
               /\ calls' = calls (+) SetToBag({RetryCall(h)})
               /\ \A g \in Labels \ {h} : generatedImages'[g] = generatedImages[g]
       /\ UserCallSettles => \A c \in BagToSet(calls), o \in GenerateOutcomes :
            RetrySettle(c, o)
            => /\ generatedImages'[c.label] =
                    (IF o.ok THEN Item("done", o.url, NoError)
                             ELSE Item("error", NoImage, o.msg))
               /\ \A g \in Labels \ {c.label} :
                    generatedImages'[g] = generatedImages[g]]_vars

C7_Witness ==
    \E h \in RunLabels, g \in RunLabels :
        /\ BagIn(RetryCall(h), calls)
        /\ generatedImages[h] = PendingItem
        /\ g # h
        /\ Settled(g)

\* C8: retryItem and remixItem run outside the pool: invoking them, and the
\* settling of their calls, leaves the run's queue and the pool's calls as
\* they are; an invocation that passes its guards issues its call in the same
\* step however many pool workers are busy; and a pool worker takes the next
\* label however many retry / remix calls are in flight.
C8_UserCallsOutsidePool ==
    [][/\ UserInvokes =>
            \A h \in Labels :
               /\ (\/ handleRegenerateDecade(h)
                   \/ \E prompt \in Prompts : handleRemixDecade(h, prompt))
                  => UNCHANGED <<hairstyleQueue, workers, attempts>>
               /\ (handleRegenerateDecade(h) /\ ~RegenerateReturnsEarly(h))
                  => BagCardinality(calls') = BagCardinality(calls) + 1
               /\ \A prompt \in Prompts :
                    (handleRemixDecade(h, prompt) /\ ~RemixReturnsEarly(h, prompt))
                    => BagCardinality(calls') = BagCardinality(calls) + 1
       /\ UserCallSettles =>
            \A c \in BagToSet(calls) :
               (\/ \E o \in GenerateOutcomes : RetrySettle(c, o)
                \/ \E o \in RemixOutcomes : RemixSettle(c, o))
               => UNCHANGED <<hairstyleQueue, workers, attempts>>
       /\ Len(hairstyleQueue) > 0 =>
            \A h \in BagToSet(workers), o \in GenerateOutcomes :
               PoolSettle(h, o)
               => BagCardinality(workers') = BagCardinality(workers)]_vars

C8_Witness ==
    \E c \in BagToSet(calls), d \in BagToSet(calls) :
        /\ c.kind = "retry" /\ ~c.stale
        /\ d.kind = "remix" /\ ~d.stale
        /\ c.label # d.label
        /\ workers # IdlePool
        /\ appState = "generating"

\* C9: remixItem invoked on an item without a result image, or on a Pending
\* item, changes no item and issues no call.
C9_RemixWithoutImageOrPendingIsNoOp ==
    [][UserInvokes => \A h \in Labels, prompt \in Prompts :
         (/\ handleRemixDecade(h, prompt)
          /\ \/ generatedImages[h].url = NoImage
             \/ generatedImages[h].status = "pending")
         => UNCHANGED <<generatedImages, calls, workers, hairstyleQueue,
                        attempts, isLoading, appState>>]_vars

C9_Witness ==
    \E h \in Labels :
        /\ lastOp = Op("handleRemixDecade", h)
        /\ generatedImages[h].status = "pending"
        /\ generatedImages[h].url # NoImage

\* C10: a remixItem that proceeds is given the image the item holds; when
\* its call settles the item is Done with the new image, or Error with the
\* failure message and that same image.
C10_RemixEndsDoneOrErrorWithPriorImage ==
    [][/\ UserInvokes => \A h \in Labels, prompt \in Prompts :
            (handleRemixDecade(h, prompt) /\ ~RemixReturnsEarly(h, prompt))
            => /\ calls' = calls (+) SetToBag(
                     {Call("remix", h, generatedImages[h].url, FALSE)})
               /\ generatedImages'[h].status = "pending"
               /\ generatedImages'[h].url = generatedImages[h].url
       /\ UserCallSettles => \A c \in BagToSet(calls), o \in RemixOutcomes :
            RemixSettle(c, o)
            => generatedImages'[c.label] =
                 (IF o.ok THEN Item("done", o.url, NoError)
                          ELSE Item("error", c.src, o.msg))]_vars

C10_Witness ==
    \E h \in RunLabels :
        /\ generatedImages[h].status = "error"
        /\ generatedImages[h].error \in RemixFailures
        /\ generatedImages[h].url # NoImage

\* Steps that change what the pool awaits: handleGenerate and the settling of
\* a pool worker's call.
PoolMoves == workers' # workers

\* C11: when the generation call of a pool worker fails, the item becomes
\* Error with the failure's message and no other item changes; the worker
\* then takes the label at the head of the queue, if there is one, so the
\* pool keeps its size; and the run is reported complete only with the queue
\* empty and every label of the run handed over once.
C11_FailureStaysInWorker ==
    [][PoolMoves => \A h \in BagToSet(workers), o \in GenerateOutcomes :
         (PoolSettle(h, o) /\ ~o.ok)
         => /\ generatedImages'[h] = Item("error", NoImage, o.msg)
            /\ o.msg # NoError
            /\ \A g \in Labels \ {h} : generatedImages'[g] = generatedImages[g]
            /\ Len(hairstyleQueue) > 0 =>
                  /\ BagIn(Head(hairstyleQueue), workers')
                  /\ attempts'[Head(hairstyleQueue)] = 1
                  /\ hairstyleQueue' = Tail(hairstyleQueue)
                  /\ BagCardinality(workers') = BagCardinality(workers)
            /\ lastOp' = RunSettled =>
                  /\ hairstyleQueue' = <<>>
                  /\ \A g \in RunLabels : attempts'[g] = 1]_vars

C11_Witness ==
    /\ lastOp = RunSettled
    /\ RunLabels # {}
    /\ \A h \in RunLabels :
          generatedImages[h].status = "error" /\ attempts[h] = 1

\* C12 as claimed: an item carries an error message if and only if its
\* status is Error.
C12_ErrorMessageIffError ==
    \A h \in Labels :
        generatedImages[h].error # NoError <=> generatedImages[h].status = "error"

\* C13 as claimed: every Done item has a result image, and an item that is
\* not Done has a result image only when it is in Error.
C13_ImageIffDoneOrError ==
    \A h \in Labels :
        /\ generatedImages[h].status = "done" => generatedImages[h].url # NoImage
        /\ (generatedImages[h].status # "done" /\ generatedImages[h].url # NoImage)
              => generatedImages[h].status = "error"

\* C13 as amended: every Done item has a result image, and an item that is
\* not Done has a result image only when it is Pending with a remix of that
\* image in flight, or in Error with the message of a failed remix.
C13_ImageIffDoneOrRemixed ==
    \A h \in Labels :
        LET item == generatedImages[h]
        IN  /\ item.status = "done" => item.url # NoImage
            /\ (item.status # "done" /\ item.url # NoImage)
                  => \/ /\ item.status = "pending"
                        /\ \E c \in UserCallsFor(h) :
                              c.kind = "remix" /\ c.src = item.url
                     \/ /\ item.status = "error"
                        /\ item.error \in RemixFailures

C13_Witness ==
    \E h \in RunLabels, g \in RunLabels :
        /\ generatedImages[h].status = "pending"
        /\ generatedImages[h].url # NoImage
        /\ generatedImages[g].status = "error"
        /\ generatedImages[g].url # NoImage

\* Steps that start a run.
RunStarts == appState = "image-uploaded" /\ appState' = "generating"

\* C22: startRun replaces the mapping wholesale: after it the mapping holds
\* exactly the labels of the chosen category, each Pending with no result
\* image and no error message, whatever it held before; and the run's queue
\* was filled with exactly those labels, each once: by the time the handler
\* reaches its await the pool's workers have taken the first labels off it,
\* in the list's order, and the others are queued behind, in that order.
C22_RunStartsFromPendingCategory ==
    [][RunStarts => \A gender \in Genders :
         handleGenerate(gender)
         => LET list == IF gender = "masculino" THEN MALE_HAIRSTYLES
                                                ELSE FEMALE_HAIRSTYLES
                taken == Len(list) - Len(hairstyleQueue')
            IN  /\ \A h \in Labels :
                      generatedImages'[h] =
                         (IF \E i \in DOMAIN list : list[i] = h
                             THEN Item("pending", NoImage, NoError)
                             ELSE Item("absent", NoImage, NoError))
                /\ taken \in 0..Len(list)
                /\ hairstyleQueue' = SubSeq(list, taken + 1, Len(list))
                /\ workers' = SetToBag({list[i] : i \in 1..taken})
                /\ \A i, j \in DOMAIN list : list[i] = list[j] => i = j]_vars

C22_Witness ==
    /\ appState = "generating"
    /\ selectedGender = "feminino"
    /\ \A h \in Labels :
          generatedImages[h] = (IF h \in RunLabels THEN PendingItem ELSE NoItem)
    /\ Len(hairstyleQueue) + BagCardinality(workers) = NumStyles
    /\ \E c \in BagToSet(calls) : c.stale /\ c.label \notin RunLabels

\* C23: a run is reported complete (loading flag cleared, state
\* 'results-shown') only after the queue is empty and every pool worker has
\* returned: while a label is queued or awaited by a worker the loading flag
\* is set and the state is 'generating'; and, every call settling in the end,
\* every run that was started is reported complete.
C23_RunCompleteOnlyAfterPoolDrains ==
    /\ [](  (hairstyleQueue # <<>> \/ workers # EmptyBag)
              => (isLoading /\ appState = "generating"))
    /\ [](appState = "generating" => workers # EmptyBag)
    /\ (appState = "generating")
          ~> (appState = "results-shown" /\ ~isLoading /\ lastOp = RunSettled)

C23_Witness ==
    /\ lastOp = RunSettled
    /\ appState = "results-shown"
    /\ ~isLoading
    /\ hairstyleQueue = <<>>
    /\ workers = EmptyBag
    /\ \E c \in BagToSet(calls) : ~c.stale

\* C25: every call settling in the end, no item stays Pending forever: at
\* every moment of any sequence of startRun, retryItem, remixItem and reset,
\* each label's item is later Done or Error, or removed by a reset (the item
\* a new run puts in its place settles in turn).
C25_PendingEventuallySettles ==
    \A h \in Labels :
        []<>(generatedImages[h].status \in {"done", "error", "absent"})

C25_Witness ==
    /\ appState = "results-shown"
    /\ calls = EmptyBag
    /\ \A h \in RunLabels : Settled(h)
    /\ \E h \in RunLabels :
          /\ generatedImages[h].status = "error"
          /\ generatedImages[h].error \in RemixFailures
          /\ generatedImages[h].url = GeneratedImage

\* The steps of handleDownloadAlbum: only they leave one of its tags.
Downloads == lastOp' \in {AlbumComposedOp, AlbumRefusedOp}

CategoryDone ==
    \A h \in RunLabels :
        generatedImages[h].status = "done" /\ generatedImages[h].url # NoImage

\* C26 as claimed: the album assembler is invoked only when every label of
\* the selected category is Done with a result image; otherwise the download
\* is refused and nothing is composed.
C26_AlbumOnlyWhenCategoryDone ==
    [][Downloads =>
         /\ lastOp' = AlbumComposedOp => CategoryDone
         /\ ~CategoryDone => (lastOp' = AlbumRefusedOp /\ ~isDownloading')]_vars

\* C27 as claimed: an item's status becomes Done or Error only from Pending:
\* no step takes an item from Done to Error or from Error to Done, or writes
\* a completion over an item that is not Pending.
C27_SettlesOnlyFromPending ==
    [][generatedImages' # generatedImages =>
         \A h \in Labels :
            (/\ generatedImages'[h] # generatedImages[h]
             /\ generatedImages'[h].status \in {"done", "error"})
            => generatedImages[h].status = "pending"]_vars

\* -------------------------------------------------------- client claims
\* A transport attempt that failed with the signal of an internal server
\* fault in its message (or, for a value that is no Error, in its JSON text).
ServerFault(o) ==
    /\ ~o.ok
    /\ \E mark \in {Code500, Internal} :
          Includes(o.error.message, mark) \/ Includes(o.error.json, mark)

Closed(g) == g.settled # <<>>

HasImage(response) == \E i \in DOMAIN response : response[i].inlineData # <<>>

\* A callGeminiWithRetry invocation that came back with a response holding
\* no image: the try block it serves fails with NoImageReturned.
YieldsNoImage(g) ==
    Closed(g) /\ g.settled[1].ok /\ ~HasImage(g.settled[1].response)

YieldsImage(g) ==
    Closed(g) /\ g.settled[1].ok /\ HasImage(g.settled[1].response)

FailsInTransport(g) == Closed(g) /\ ~g.settled[1].ok

\* C14: when the first transport attempt of a callWithRetry fails with an
\* error that is no transient server error, that is its only attempt, no
\* backoff delay is taken, and the call fails with that very error.
C14_NonTransientNotRetried ==
    \A i \in DOMAIN groups :
        LET g == groups[i]
        IN  (Len(g.tries) >= 1 /\ ~g.tries[1].ok /\ ~ServerFault(g.tries[1]))
            => /\ Len(g.tries) = 1
               /\ g.delays = <<>>
               /\ g.settled = <<g.tries[1]>>
               /\ clientPc # "backoff"

C14_Witness ==
    /\ clientPc = "threw"
    /\ Len(groups) = 1
    /\ groups[1].tries = <<Threw(Error(<<"fetch failed">>))>>
    /\ groups[1].settled = groups[1].tries

\* C15: a callWithRetry makes at most 3 transport attempts; when all 3 fail
\* with transient server errors it fails with the error of the 3rd, having
\* taken the two delays between the attempts and none after the 3rd.
C15_AtMostThreeAttempts ==
    \A i \in DOMAIN groups :
        LET g == groups[i]
        IN  /\ Len(g.tries) <= 3
            /\ attempt <= 3
            /\ (Len(g.tries) = 3 /\ \A k \in 1..3 : ServerFault(g.tries[k]))
               => /\ g.settled = <<g.tries[3]>>
                  /\ Len(g.delays) = 2
                  /\ ~(i = Len(groups) /\ clientPc = "backoff")

C15_Witness ==
    /\ clientPc = "threw"
    /\ Len(groups) = 1
    /\ Len(groups[1].tries) = 3
    /\ \A k \in 1..3 : ServerFault(groups[1].tries[k])

\* C16: when the transport fails twice with a transient server error and
\* then succeeds, callWithRetry returns that response from the 3rd attempt,
\* having waited 1000 ms and then 2000 ms; in general the k-th delay, taken
\* after the k-th failure and before attempt k+1, is 1000 * 2^(k-1) ms.
C16_BackoffDoubles ==
    \A i \in DOMAIN groups :
        LET g == groups[i]
        IN  /\ \A k \in DOMAIN g.delays :
                  g.delays[k] = 1000 * 2 ^ (k - 1) /\ ServerFault(g.tries[k])
            /\ Closed(g) => Len(g.delays) = Len(g.tries) - 1
            /\ (/\ Len(g.tries) = 3
                /\ ServerFault(g.tries[1])
                /\ ServerFault(g.tries[2])
                /\ g.tries[3].ok)
               => /\ g.settled = <<g.tries[3]>>
                  /\ g.delays = <<1000, 2000>>

C16_Witness ==
    /\ clientPc = "returned"
    /\ Len(groups) = 1
    /\ Len(groups[1].tries) = 3
    /\ groups[1].tries[3].ok
    /\ groups[1].delays = <<1000, 2000>>

\* C17: when generate's primary instruction yields NoImageReturned and the
\* fallback label and category are both non-empty, the fallback instruction
\* is run, once: there are exactly two callWithRetry groups, the primary and
\* the fallback, each of at most 3 attempts; and if the fallback yields an
\* image, generate returns that image.
C17_FallbackOnceAfterNoImage ==
    /\ Len(groups) <= 2
    /\ (/\ clientArgs.fn = GenerateFn
        /\ Len(groups) >= 1
        /\ YieldsNoImage(groups[1])
        /\ clientArgs.hairstyle # ""
        /\ clientArgs.gender # "")
       => /\ Len(groups) = 2
          /\ groups[1].tier = "primary"
          /\ groups[2].tier = "fallback"
          /\ \A i \in 1..2 : Len(groups[i].tries) <= 3
          /\ YieldsImage(groups[2])
             => /\ clientPc = "returned"
                /\ clientResult.ok
                /\ \E part \in Range(groups[2].settled[1].response) :
                      /\ part.inlineData # <<>>
                      /\ clientResult.url =
                            <<"data:">> \o part.inlineData[1].mimeType
                               \o <<";base64,">> \o part.inlineData[1].data

C17_Witness ==
    /\ clientArgs.fn = GenerateFn
    /\ clientPc = "returned"
    /\ Len(groups) = 2
    /\ YieldsNoImage(groups[1])
    /\ Len(groups[1].tries) = 2
    /\ YieldsImage(groups[2])
    /\ Len(groups[2].tries) = 3

\* C18: when generate's primary attempt fails with anything other than
\* NoImageReturned (a transport failure, a transient one that used up its 3
\* attempts included), generate fails with GenerationFailed, whose message
\* carries the cause's message, and no fallback transport call is made.
C18_OtherFailureWrappedWithoutFallback ==
    (/\ clientArgs.fn = GenerateFn
     /\ Len(groups) >= 1
     /\ FailsInTransport(groups[1]))
    => /\ Len(groups) = 1
       /\ clientPc = "threw"
       /\ ~clientResult.ok
       /\ clientResult.error.isError
       /\ Head(clientResult.error.message) = GeneratePrefix
       /\ LET cause == groups[1].settled[1].error
          IN  Tail(clientResult.error.message) =
                 (IF cause.isError THEN cause.message ELSE cause.json)

C18_Witness ==
    /\ clientArgs.fn = GenerateFn
    /\ clientPc = "threw"
    /\ Len(groups) = 1
    /\ Len(groups[1].tries) = 3
    /\ ServerFault(groups[1].tries[3])
    /\ Head(clientResult.error.message) = GeneratePrefix

\* The NoImageReturned failure a response without an image gives rise to.
NoImageReturned(response) ==
    [isError |-> TRUE,
     message |-> <<NoImageText,
                   IF \E i \in DOMAIN response : response[i].text # ""
                      THEN ResponseText(response) ELSE NoTextReceived>>,
     json |-> <<"{}">>]

\* C19: when the primary attempt yields NoImageReturned and the fallback
\* attempt fails too (by NoImageReturned or by a transport failure),
\* generate fails with GenerationFailed embedding the message of the
\* fallback's failure; when the fallback label or the category is empty,
\* generate fails with the original NoImageReturned itself and makes no
\* further transport call.
C19_FallbackFailureOrMissingInputs ==
    (/\ clientArgs.fn = GenerateFn
     /\ Len(groups) >= 1
     /\ YieldsNoImage(groups[1]))
    => IF clientArgs.hairstyle = "" \/ clientArgs.gender = ""
          THEN /\ Len(groups) = 1
               /\ clientPc = "threw"
               /\ clientResult =
                     Rejected(NoImageReturned(groups[1].settled[1].response))
          ELSE /\ Len(groups) = 2
               /\ (YieldsNoImage(groups[2]) \/ FailsInTransport(groups[2]))
                  => /\ clientPc = "threw"
                     /\ ~clientResult.ok
                     /\ clientResult.error.isError
                     /\ Head(clientResult.error.message) = FallbackPrefix
                     /\ YieldsNoImage(groups[2]) =>
                          Tail(clientResult.error.message) =
                             NoImageReturned(groups[2].settled[1].response).message
                     /\ (/\ FailsInTransport(groups[2])
                         /\ groups[2].settled[1].error.isError)
                        => Tail(clientResult.error.message) =
                              groups[2].settled[1].error.message

C19_Witness ==
    /\ clientArgs.fn = GenerateFn
    /\ clientPc = "threw"
    /\ Len(groups) = 2
    /\ YieldsNoImage(groups[1])
    /\ FailsInTransport(groups[2])
    /\ groups[2].settled[1].error.isError
    /\ Head(clientResult.error.message) = FallbackPrefix

\* C20 as claimed: remix makes no second group of transport calls, and every
\* failure of remix carries the remix-specific message.
C20_EveryRemixFailureWrapped ==
    clientArgs.fn = RemixFn
    => /\ Len(groups) <= 1
       /\ clientPc = "threw"
          => /\ clientResult.error.isError
             /\ Head(clientResult.error.message) = RemixPrefix

\* C20 as amended: remix makes no second group of transport calls; every
\* failure of its transport call or of the extraction of the image carries
\* the remix-specific message followed by the cause's; a source image that
\* fails the format check is rejected with InvalidImageFormat, not wrapped,
\* before any transport call.
C20_RemixFailureWrappedUnlessFormat ==
    clientArgs.fn = RemixFn
    => /\ Len(groups) <= 1
       /\ clientPc = "threw"
          => IF Len(groups) = 0
                THEN clientResult = Rejected(Error(<<InvalidFormatText>>))
                ELSE /\ clientResult.error.isError
                     /\ Head(clientResult.error.message) = RemixPrefix
                     /\ YieldsNoImage(groups[1])
                        => Tail(clientResult.error.message) =
                              NoImageReturned(groups[1].settled[1].response).message
                     /\ FailsInTransport(groups[1])
                        => LET cause == groups[1].settled[1].error
                           IN  Tail(clientResult.error.message) =
                                  (IF cause.isError THEN cause.message
                                                    ELSE cause.json)

C20_Witness ==
    /\ clientArgs.fn = RemixFn
    /\ clientPc = "threw"
    /\ Len(groups) = 1
    /\ YieldsNoImage(groups[1])
    /\ Head(clientResult.error.message) = RemixPrefix

\* C24: a source image string that fails the format check makes generate
\* and remix fail with InvalidImageFormat before any transport call: no
\* callGeminiWithRetry is entered (zero attempts, no retry, no fallback), and
\* the item the caller stores for that failure is in Error with that message.
C24_BadFormatFailsBeforeTransport ==
    (clientArgs.fn # "none" /\ MatchGroups(clientArgs.imageDataUrl) = <<>>)
    => /\ clientPc = "threw"
       /\ groups = <<>>
       /\ attempt = 0
       /\ tier = "none"
       /\ clientResult = Rejected(Error(<<InvalidFormatText>>))
       /\ LET o == Outcome(clientResult)
              item == IF clientArgs.fn = GenerateFn
                         THEN GeneratedItem(o)
                         ELSE RemixedItem(
                                Call("remix", 1, clientArgs.imageDataUrl, FALSE), o)
          IN  /\ item.status = "error"
              /\ item.error = <<InvalidFormatText>>

C24_Witness ==
    /\ clientArgs.fn = RemixFn
    /\ clientArgs.imageDataUrl =
          <<"data:", "image/", "w", "+", "w", ";base64,", "w">>
    /\ clientPc = "threw"
    /\ groups = <<>>

\* The transport attempts issued in the i-th callGeminiWithRetry: those that
\* settled and the one in flight.
Issued(i) ==
    Len(groups[i].tries)
      + (IF i = Len(groups) /\ clientPc = "transport" THEN 1 ELSE 0)

TotalIssued ==
    (IF Len(groups) >= 1 THEN Issued(1) ELSE 0)
      + (IF Len(groups) >= 2 THEN Issued(2) ELSE 0)

\* C28: one generate call issues at most 6 transport attempts, at most 3
\* for the primary instruction and at most 3 for the fallback, and one remix
\* call at most 3; and, every transport attempt settling (and every backoff
\* timer firing), each call ends, with an image or with a failure.
C28_BoundedAttemptsAndTermination ==
    /\ [](/\ Len(groups) <= 2
          /\ \A i \in DOMAIN groups : Issued(i) <= 3
          /\ clientArgs.fn = GenerateFn
             => /\ TotalIssued <= 6
                /\ \A i \in DOMAIN groups :
                      groups[i].tier = (IF i = 1 THEN "primary" ELSE "fallback")
          /\ clientArgs.fn = RemixFn => TotalIssued <= 3
          /\ clientPc = "returned"
             => clientResult.ok /\ clientResult.url # <<>>
          /\ clientPc = "threw"
             => ~clientResult.ok /\ clientResult.error # NoThrown)
    /\ []<>(clientPc \in {"idle", "returned", "threw"})

C28_Witness ==
    /\ clientArgs.fn = GenerateFn
    /\ clientPc = "threw"
    /\ Len(groups) = 2
    /\ TotalIssued = 6
    /\ Head(clientResult.error.message) = FallbackPrefix

\* ---------------------------------------------------------- codec claims
LacksPrefix(s) == Len(s) = 0 \/ s[1] # "data:"
LacksSeparator(s) == \A i \in DOMAIN s : s[i] # ";base64,"
LacksImageType(s) == ~(Len(s) >= 3 /\ s[2] = "image/" /\ s[3] = "w")

\* C21 as claimed: a string that lacks the `data:` prefix, the `;base64,`
\* separator or an image media type is rejected with InvalidImageFormat;
\* taking an accepted string apart and composing
\* `data:<mediaType>;base64,<encodedData>` again gives the string back; and
\* every accepted payload has a media type image/* and encodedData that is
\* not empty.
C21_CodecRoundTripAndPayload ==
    clientArgs.fn # "none" =>
        LET s == clientArgs.imageDataUrl
        IN  /\ (LacksPrefix(s) \/ LacksSeparator(s) \/ LacksImageType(s))
               => groups = <<>>
            /\ groups = <<>>
               => /\ clientPc = "threw"
                  /\ clientResult = Rejected(Error(<<InvalidFormatText>>))
            /\ groups # <<>>
               => LET payload == groups[1].imagePart
                  IN  /\ <<"data:">> \o payload.mimeType
                           \o <<";base64,">> \o payload.data = s
                      /\ Len(payload.mimeType) >= 2
                      /\ payload.mimeType[1] = "image/"
                      /\ payload.data # <<>>
            /\ clientPc = "returned" => clientResult.url = s
====
